---- MODULE Spec2Model ----
(***************************************************************************)
(* Model of mandotab/tab_core.py: the position resolver (notes_to_tab,     *)
(* choose_position, candidates_for_midi) and the ASCII renderer            *)
(* (render_ascii_tab).                                                     *)
(*                                                                         *)
(* Representation.  Times are Python floats in the source; the model uses  *)
(* integer time units (only their order is read by the code).  A Python    *)
(* tuple (string, fret) is the TLA+ tuple <<string, fret>>; the None that  *)
(* choose_position returns is NoPos, the None held by prev_tab is None.    *)
(* A Python str is a sequence of one-character strings.                    *)
(***************************************************************************)
EXTENDS Integers, Sequences, FiniteSets, TLC

VARIABLES
    note_events,    \* argument of notes_to_tab, as the caller passed it
    sorted_events,  \* notes_to_tab's local note_events after sorted()
    i,              \* position of the for loop in sorted_events (1-based)
    tab_events,     \* notes_to_tab's tab_events / argument of render_ascii_tab
    prev_tab,       \* notes_to_tab's prev_tab / prev argument of choose_position
    midi,           \* midi argument of the last choose_position call
    pos,            \* value returned by the last choose_position call
    text,           \* value returned by render_ascii_tab
    pc              \* control position

vars == <<note_events, sorted_events, i, tab_events, prev_tab, midi, pos, text, pc>>

---------------------------------------------------------------------------
(* Bounds of the model *)

MaxNotes == 3       \* longest note list given to notes_to_tab
MaxTime == 1        \* start times range over 0..MaxTime
Margin == 3         \* pitches tried beyond both ends of the playable range
MaxEvents == 2      \* longest TabEvent list given directly to render_ascii_tab

---------------------------------------------------------------------------
(* Values *)

None == [none |-> TRUE]
NoPos == <<>>
NoText == <<>>

Abs(x) == IF x < 0 THEN -x ELSE x

---------------------------------------------------------------------------
(* Mandolin tuning helpers *)

MANDOLIN_TUNING == (4 :> 55) @@ (3 :> 62) @@ (2 :> 69) @@ (1 :> 76)

\* MANDOLIN_TUNING.items() yields the strings in insertion order
TuningItems == <<4, 3, 2, 1>>

MAX_FRET == 20

\* a fret test that forgets the open-string floor
ValidFretNoFloor(fret) == fret <= MAX_FRET

\* a fret test that stops one fret short of the ceiling
ValidFretShort(fret) == 0 <= fret /\ fret < MAX_FRET

\* if 0 <= fret <= MAX_FRET
ValidFret(fret) == 0 <= fret /\ fret <= MAX_FRET

RECURSIVE CandidatesFrom(_, _)
CandidatesFrom(items, m) ==
    IF items = <<>> THEN <<>>
    ELSE LET string == Head(items)
             fret == m - MANDOLIN_TUNING[string]
         IN  (IF ValidFret(fret) THEN << <<string, fret>> >> ELSE <<>>)
                 \o CandidatesFrom(Tail(items), m)

candidates_for_midi(m) == CandidatesFrom(TuningItems, m)

---------------------------------------------------------------------------
(* choose_position *)

\* key=lambda sf: (sf[1], sf[0]), compared as Python compares tuples
KeyLess(a, b) == a[2] < b[2] \/ (a[2] = b[2] /\ a[1] < b[1])

\* sorted() is stable: x goes after every element whose key is not greater
RECURSIVE InsertByKey(_, _)
InsertByKey(x, s) ==
    IF s = <<>> THEN <<x>>
    ELSE IF KeyLess(x, Head(s)) THEN <<x>> \o s
    ELSE <<Head(s)>> \o InsertByKey(x, Tail(s))

RECURSIVE SortedByKey(_)
SortedByKey(s) ==
    IF s = <<>> THEN <<>>
    ELSE InsertByKey(s[Len(s)], SortedByKey(SubSeq(s, 1, Len(s) - 1)))

\* a score that drops abs() from the fret distance
scoreSigned(sf, prev) ==
    (sf[2] - prev.fret) * 10 + Abs(sf[1] - prev.string) * 7

\* a score whose string weight is 7.0 instead of 0.7
scoreHeavyString(sf, prev) ==
    Abs(sf[2] - prev.fret) * 10 + Abs(sf[1] - prev.string) * 70

\* score(sf) = dist_fret * 1.0 + dist_string * 0.7, in tenths.  The float
\* values k + 0.7*j (j in 0..3) differ by at least 0.1 whenever the exact
\* values differ and are the same float whenever they are equal, so the
\* integer order is the order min() sees.
score(sf, prev) ==
    LET dist_fret == Abs(sf[2] - prev.fret)
        dist_string == Abs(sf[1] - prev.string)
    IN  dist_fret * 10 + dist_string * 7

\* min(candidates, key=score): the first element with the least key
RECURSIVE MinByScore(_, _, _)
MinByScore(best, rest, prev) ==
    IF rest = <<>> THEN best
    ELSE IF score(Head(rest), prev) < score(best, prev)
         THEN MinByScore(Head(rest), Tail(rest), prev)
         ELSE MinByScore(best, Tail(rest), prev)

\* a choice that takes the first candidate when there is no previous position
ChooseAmongUnsorted(candidates, prev) ==
    IF candidates = <<>> THEN NoPos
    ELSE IF prev = None THEN candidates[1]
    ELSE MinByScore(Head(candidates), Tail(candidates), prev)

\* the body of choose_position once the candidates are known
ChooseAmong(candidates, prev) ==
    IF candidates = <<>> THEN NoPos
    ELSE IF prev = None THEN SortedByKey(candidates)[1]
    ELSE MinByScore(Head(candidates), Tail(candidates), prev)

choose_position(m, prev) == ChooseAmong(candidates_for_midi(m), prev)

---------------------------------------------------------------------------
(* notes_to_tab *)

\* sorted(note_events, key=lambda n: n.start_time), stable; also the
\* renderer's sorted(tab_events, key=lambda e: e.start_time)
\* an order that lets a later element pass an earlier one of the same time
StartBeforeOrEqual(x, y) == x.start_time <= y.start_time

\* x sorts before y
StartBefore(x, y) == x.start_time < y.start_time

RECURSIVE InsertByStart(_, _)
InsertByStart(x, s) ==
    IF s = <<>> THEN <<x>>
    ELSE IF StartBefore(x, Head(s)) THEN <<x>> \o s
    ELSE <<Head(s)>> \o InsertByStart(x, Tail(s))

RECURSIVE SortedByStart(_)
SortedByStart(s) ==
    IF s = <<>> THEN <<>>
    ELSE InsertByStart(s[Len(s)], SortedByStart(SubSeq(s, 1, Len(s) - 1)))

TabEvent(n, p) ==
    [start_time |-> n.start_time, end_time |-> n.end_time,
     string |-> p[1], fret |-> p[2], midi |-> n.midi]

\* the for loop, from note k of the sorted list on
RECURSIVE TabLoop(_, _, _, _)
TabLoop(notes, k, tabs, prev) ==
    IF k > Len(notes) THEN tabs
    ELSE LET p == choose_position(notes[k].midi, prev)
         IN  IF p = NoPos THEN TabLoop(notes, k + 1, tabs, prev)
             ELSE TabLoop(notes, k + 1, Append(tabs, TabEvent(notes[k], p)),
                          TabEvent(notes[k], p))

\* notes_to_tab as a function of its argument
notes_to_tab(notes) ==
    IF notes = <<>> THEN <<>> ELSE TabLoop(SortedByStart(notes), 1, <<>>, None)

---------------------------------------------------------------------------
(* render_ascii_tab *)

Digits == <<"0", "1", "2", "3", "4", "5", "6", "7", "8", "9">>

\* str(n) for an int
RECURSIVE Str(_)
Str(n) ==
    IF n < 0 THEN <<"-">> \o Str(-n)
    ELSE IF n < 10 THEN <<Digits[n + 1]>>
    ELSE Str(n \div 10) \o <<Digits[(n % 10) + 1]>>

\* a chunk that is not cut to two characters
ChunkUncut(ev, s) ==
    IF s = ev.string
    THEN LET fret_txt == Str(ev.fret)
         IN  IF Len(fret_txt) = 1 THEN <<"-">> \o fret_txt ELSE fret_txt
    ELSE <<"-", "-">>

\* a chunk cut to its first two characters
ChunkFirstTwo(ev, s) ==
    IF s = ev.string
    THEN LET fret_txt == Str(ev.fret)
         IN  IF Len(fret_txt) = 1 THEN <<"-">> \o fret_txt
             ELSE SubSeq(fret_txt, 1, 2)
    ELSE <<"-", "-">>

\* the chunk appended to columns[s] for event ev
Chunk(ev, s) ==
    IF s = ev.string
    THEN LET fret_txt == Str(ev.fret)
         IN  IF Len(fret_txt) = 1 THEN <<"-">> \o fret_txt
             ELSE IF Len(fret_txt) >= 2
                  THEN SubSeq(fret_txt, Len(fret_txt) - 1, Len(fret_txt))
                  ELSE fret_txt
    ELSE <<"-", "-">>

\* "".join(columns[s]) after the loop over the sorted events
RECURSIVE Columns(_, _)
Columns(events, s) ==
    IF events = <<>> THEN <<>>
    ELSE Chunk(Head(events), s) \o Columns(Tail(events), s)

Line(label, events, s) == <<label, "|">> \o Columns(events, s) \o <<"|">>

\* the literal returned for an empty list
EmptyTab == <<"E", "|", "\n", "A", "|", "\n", "D", "|", "\n", "G", "|", "\n">>

\* "\n".join([line_E, line_A, line_D, line_G]) of the sorted events
JoinedTab(events) ==
    Line("E", events, 1) \o <<"\n">> \o Line("A", events, 2) \o <<"\n">>
        \o Line("D", events, 3) \o <<"\n">> \o Line("G", events, 4)

render_ascii_tab(events) ==
    IF events = <<>> THEN EmptyTab ELSE JoinedTab(SortedByStart(events))

---------------------------------------------------------------------------
(* Inputs *)

\* pitches of the lists of several notes: both edges of the range from
\* inside and outside, and pitches with one, two and three candidates
Pitches == {54, 55, 69, 75, 76, 96, 97}

\* pitches of the one-note lists: everything from below to above the range,
\* and the far-away values 40 and 200 and the ends of the MIDI scale
AllPitches ==
    ((55 - Margin)..(96 + Margin)) \cup {-1, 0, 40, 127, 200}

\* the k-th note of a list lasts k time units, so that two notes of one
\* list are never the same value
NoteList(len, st, ms) ==
    [k \in 1..len |-> [start_time |-> st[k], end_time |-> st[k] + k, midi |-> ms[k]]]

\* demo_notes of the manual test harness, times in half seconds
demo_notes ==
    << [start_time |-> 0, end_time |-> 1, midi |-> 69],
       [start_time |-> 1, end_time |-> 2, midi |-> 71],
       [start_time |-> 2, end_time |-> 3, midi |-> 72],
       [start_time |-> 3, end_time |-> 4, midi |-> 74] >>

\* the argument of notes_to_tab: any list of up to MaxNotes notes over
\* Pitches, any one-note list over AllPitches, or demo_notes
IsInput(notes) ==
    \/ \E len \in 0..MaxNotes :
          \E st \in [1..len -> 0..MaxTime], ms \in [1..len -> Pitches] :
             notes = NoteList(len, st, ms)
    \/ \E t \in 0..MaxTime, m \in AllPitches :
          notes = NoteList(1, <<t>>, <<m>>)
    \/ notes = demo_notes

---------------------------------------------------------------------------
(* The resolver, one action per step of notes_to_tab *)

Init ==
    /\ IsInput(note_events)
    /\ sorted_events = <<>>
    /\ i = 0
    /\ tab_events = <<>>
    /\ prev_tab = None
    /\ midi = 0
    /\ pos = NoPos
    /\ text = NoText
    /\ pc = "start"

\* if not note_events: return []
ReturnEmpty ==
    /\ pc = "start"
    /\ note_events = <<>>
    /\ pc' = "done"
    /\ UNCHANGED <<note_events, sorted_events, i, tab_events, prev_tab, midi, pos, text>>

\* sorted(), tab_events = [], prev_tab = None
SortNotes ==
    /\ pc = "start"
    /\ note_events # <<>>
    /\ sorted_events' = SortedByStart(note_events)
    /\ tab_events' = <<>>
    /\ prev_tab' = None
    /\ i' = 1
    /\ pc' = "loop"
    /\ UNCHANGED <<note_events, midi, pos, text>>

\* an iteration on an unplayable note that forgets the previous position
LoopSkipForgets ==
    /\ pc = "loop"
    /\ i <= Len(sorted_events)
    /\ LET n == sorted_events[i]
           p == choose_position(n.midi, prev_tab)
       IN  /\ p = NoPos
           /\ midi' = n.midi
           /\ pos' = p
    /\ i' = i + 1
    /\ prev_tab' = None
    /\ UNCHANGED <<note_events, sorted_events, tab_events, text, pc>>

\* one iteration that ends in `continue`
LoopSkip ==
    /\ pc = "loop"
    /\ i <= Len(sorted_events)
    /\ LET n == sorted_events[i]
           p == choose_position(n.midi, prev_tab)
       IN  /\ p = NoPos
           /\ midi' = n.midi
           /\ pos' = p
    /\ i' = i + 1
    /\ UNCHANGED <<note_events, sorted_events, tab_events, prev_tab, text, pc>>

\* one iteration that appends a TabEvent
LoopPlace ==
    /\ pc = "loop"
    /\ i <= Len(sorted_events)
    /\ LET n == sorted_events[i]
           p == choose_position(n.midi, prev_tab)
       IN  /\ p # NoPos
           /\ midi' = n.midi
           /\ pos' = p
           /\ tab_events' = Append(tab_events, TabEvent(n, p))
           /\ prev_tab' = TabEvent(n, p)
    /\ i' = i + 1
    /\ UNCHANGED <<note_events, sorted_events, text, pc>>

\* return tab_events
ReturnTabs ==
    /\ pc = "loop"
    /\ i > Len(sorted_events)
    /\ pc' = "done"
    /\ UNCHANGED <<note_events, sorted_events, i, tab_events, prev_tab, midi, pos, text>>

\* render_ascii_tab on an empty list
RenderEmpty ==
    /\ pc = "done"
    /\ tab_events = <<>>
    /\ text' = render_ascii_tab(tab_events)
    /\ pc' = "rendered"
    /\ UNCHANGED <<note_events, sorted_events, i, tab_events, prev_tab, midi, pos>>

\* render_ascii_tab on a list with events
RenderTab ==
    /\ pc = "done"
    /\ tab_events # <<>>
    /\ text' = render_ascii_tab(tab_events)
    /\ pc' = "rendered"
    /\ UNCHANGED <<note_events, sorted_events, i, tab_events, prev_tab, midi, pos>>

\* the harness: notes_to_tab, then render_ascii_tab of what it returned
Next == ReturnEmpty \/ SortNotes \/ LoopSkip \/ LoopPlace \/ ReturnTabs
            \/ RenderEmpty \/ RenderTab

Spec == Init /\ [][Next]_vars

---------------------------------------------------------------------------
(* render_ascii_tab called directly, on any list of TabEvents *)

\* string 5 is on no line of the tab; frets of one, two, three and four digits
Strings == {1, 2, 3, 4, 5}
Frets == {0, 7, 12, 105, 1234}

TabList(len, st, ss, fs) ==
    [k \in 1..len |-> [start_time |-> st[k], end_time |-> st[k] + k,
                       string |-> ss[k], fret |-> fs[k], midi |-> 60]]

InitRender ==
    /\ note_events = <<>>
    /\ sorted_events = <<>>
    /\ i = 0
    /\ \E len \in 0..MaxEvents :
          \E st \in [1..len -> 0..MaxTime], ss \in [1..len -> Strings],
             fs \in [1..len -> Frets] :
             tab_events = TabList(len, st, ss, fs)
    /\ prev_tab = None
    /\ midi = 0
    /\ pos = NoPos
    /\ text = NoText
    /\ pc = "done"

NextRender == RenderEmpty \/ RenderTab

SpecRender == InitRender /\ [][NextRender]_vars

---------------------------------------------------------------------------
(* choose_position called directly, on any pitch and previous position *)

InitChoose ==
    /\ note_events = <<>>
    /\ sorted_events = <<>>
    /\ i = 0
    /\ tab_events = <<>>
    /\ \/ prev_tab = None
       \/ \E s \in 1..4, f \in 0..MAX_FRET :
             prev_tab = [start_time |-> 0, end_time |-> 1, string |-> s,
                         fret |-> f, midi |-> MANDOLIN_TUNING[s] + f]
    /\ midi \in AllPitches
    /\ pos = NoPos
    /\ text = NoText
    /\ pc = "choose"

ChooseCall ==
    /\ pc = "choose"
    /\ pos' = choose_position(midi, prev_tab)
    /\ pc' = "chosen"
    /\ UNCHANGED <<note_events, sorted_events, i, tab_events, prev_tab, midi, text>>

NextChoose == ChooseCall

SpecChoose == InitChoose /\ [][NextChoose]_vars

---------------------------------------------------------------------------
(* Vocabulary of the properties, written from their statements *)

\* the (string, fret) pairs that sound pitch m: string in 1..4, fret in 0..20
Positions(m) ==
    { sf \in (1..4) \X (0..20) : MANDOLIN_TUNING[sf[1]] + sf[2] = m }

InRange(m) == 55 <= m /\ m <= 96

\* |fret - prev.fret| * 1.0 + |string - prev.string| * 0.7, times ten
Cost(sf, prev) == 10 * Abs(sf[2] - prev.fret) + 7 * Abs(sf[1] - prev.string)

\* place of element k of seq among the elements at the indices in keep, by
\* start time, elements with equal start times in the order of seq
Rank(seq, keep, k) ==
    1 + Cardinality({ j \in keep :
            \/ seq[j].start_time < seq[k].start_time
            \/ (seq[j].start_time = seq[k].start_time /\ j < k) })

PlayableIndices == { k \in DOMAIN note_events : InRange(note_events[k].midi) }

IsPlayableNote(n) == InRange(n.midi)

Returned == pc \in {"done", "rendered"}

\* the lines of a text: the pieces between newlines, a newline at the very
\* end closing the last line instead of opening another
RECURSIVE Pieces(_, _)
Pieces(t, cur) ==
    IF t = <<>> THEN <<cur>>
    ELSE IF Head(t) = "\n" THEN <<cur>> \o Pieces(Tail(t), <<>>)
    ELSE Pieces(Tail(t), Append(cur, Head(t)))

TextLines(t) ==
    LET ps == Pieces(t, <<>>)
    IN  IF ps[Len(ps)] = <<>> THEN SubSeq(ps, 1, Len(ps) - 1) ELSE ps

Labels == <<"E", "A", "D", "G">>

---------------------------------------------------------------------------
(* Properties of the resolver *)

\* C1: every TabEvent that notes_to_tab has built has its string in 1..4, its
\* fret in 0..20 and MANDOLIN_TUNING[string] + fret = midi, and the midi of the
\* TabEvent just appended is the midi of the note it was built from.
C1_PositionsAreValid ==
    /\ \A k \in DOMAIN tab_events :
          /\ tab_events[k].string \in {1, 2, 3, 4}
          /\ tab_events[k].fret \in 0..20
          /\ MANDOLIN_TUNING[tab_events[k].string] + tab_events[k].fret = tab_events[k].midi
    /\ (pc = "loop" /\ i > 1 /\ pos # NoPos) =>
          tab_events[Len(tab_events)].midi = sorted_events[i - 1].midi

C1_Witness ==
    /\ pc = "done"
    /\ Len(tab_events) = 3
    /\ tab_events[1].fret = 0 /\ tab_events[1].string = 4
    /\ tab_events[3].fret = 20 /\ tab_events[3].string = 1

\* C2: a note is placed exactly when its midi is in 55..96: the call made for
\* a note returns a position iff 55 <= midi <= 96, and what notes_to_tab
\* returns holds one TabEvent for each input note with midi in 55..96 and
\* nothing else.
C2_PlayableIffInRange ==
    /\ (pc = "loop" /\ i > 1) => ((pos # NoPos) <=> InRange(midi))
    /\ Returned =>
          /\ Len(tab_events) = Cardinality(PlayableIndices)
          /\ { <<t.start_time, t.end_time, t.midi>> : t \in { tab_events[k] : k \in DOMAIN tab_events } }
               = { <<note_events[k].start_time, note_events[k].end_time, note_events[k].midi>> :
                      k \in PlayableIndices }

C2_Witness ==
    /\ pc = "done"
    /\ Len(note_events) = 3
    /\ note_events[1].midi = 55 /\ note_events[2].midi = 97 /\ note_events[3].midi = 96
    /\ Len(tab_events) = 2

\* C3: an iteration on a note outside 55..96 changes neither prev_tab nor
\* tab_events, and what notes_to_tab returns for a list is what it returns
\* for the list without its unplayable notes.
C3_SkipKeepsMemory ==
    /\ [](Returned => tab_events = notes_to_tab(SelectSeq(note_events, IsPlayableNote)))
    /\ [][(pc = "loop" /\ i <= Len(sorted_events) /\ ~InRange(sorted_events[i].midi))
            => (prev_tab' = prev_tab /\ tab_events' = tab_events)]_vars

C3_Witness ==
    /\ pc = "done"
    /\ Len(sorted_events) = 3
    /\ sorted_events[1].midi = 75 /\ sorted_events[2].midi = 54 /\ sorted_events[3].midi = 76
    /\ Len(tab_events) = 2
    /\ tab_events[2].string = 2 /\ tab_events[2].fret = 7

\* C4: what notes_to_tab returns is the playable notes of the input in order
\* of start time, notes with equal start times in their input order, with
\* start_time, end_time and midi of each note copied; start times never
\* decrease along the output.
C4_StableTimeOrder ==
    Returned =>
        /\ Len(tab_events) = Cardinality(PlayableIndices)
        /\ \A k \in PlayableIndices :
              LET t == tab_events[Rank(note_events, PlayableIndices, k)]
              IN  /\ t.start_time = note_events[k].start_time
                  /\ t.end_time = note_events[k].end_time
                  /\ t.midi = note_events[k].midi
        /\ \A k \in 1..(Len(tab_events) - 1) :
              tab_events[k].start_time <= tab_events[k + 1].start_time

C4_Witness ==
    /\ pc = "done"
    /\ Len(note_events) = 3
    /\ note_events[1].start_time = 1 /\ note_events[2].start_time = 0
    /\ note_events[3].start_time = 1
    /\ Len(tab_events) = 3
    /\ tab_events[2].end_time = 2 /\ tab_events[3].end_time = 4

\* C5: the first TabEvent placed, which is chosen with no previous position,
\* has the least fret among the positions of its pitch and the least string
\* among those of that fret; a lone note of midi 69 goes to string 2 fret 0.
C5_FirstNoteRule ==
    /\ tab_events # <<>> =>
          LET t == tab_events[1]
          IN  /\ <<t.string, t.fret>> \in Positions(t.midi)
              /\ \A c \in Positions(t.midi) :
                    t.fret < c[2] \/ (t.fret = c[2] /\ t.string <= c[1])
    /\ (pc = "loop" /\ i > 1 /\ prev_tab = None) => pos = NoPos
    /\ (Returned /\ Len(note_events) = 1 /\ note_events[1].midi = 69) =>
          (Len(tab_events) = 1 /\ tab_events[1].string = 2 /\ tab_events[1].fret = 0)

C5_Witness ==
    /\ pc = "done"
    /\ Len(sorted_events) = 3
    /\ sorted_events[1].midi = 97 /\ sorted_events[2].midi = 54
    /\ sorted_events[3].midi = 76
    /\ Len(tab_events) = 1
    /\ tab_events[1].string = 1 /\ tab_events[1].fret = 0

\* C6: every TabEvent after the first is at a position of its pitch whose
\* cost against the TabEvent before it is at most the cost of every position
\* of that pitch; demo_notes (69, 71, 72, 74) gives (2,0), (2,2), (2,3), (2,5).
C6_LeastCostAfterFirst ==
    /\ \A k \in 2..Len(tab_events) :
          LET t == tab_events[k]
              prev == tab_events[k - 1]
          IN  /\ <<t.string, t.fret>> \in Positions(t.midi)
              /\ \A c \in Positions(t.midi) :
                    Cost(<<t.string, t.fret>>, prev) <= Cost(c, prev)
    /\ (Returned /\ note_events = demo_notes) =>
          [k \in DOMAIN tab_events |-> <<tab_events[k].string, tab_events[k].fret>>]
              = << <<2, 0>>, <<2, 2>>, <<2, 3>>, <<2, 5>> >>

C6_Witness ==
    /\ pc = "done"
    /\ note_events = demo_notes
    /\ Len(tab_events) = 4
    /\ tab_events[4].string = 2 /\ tab_events[4].fret = 5

---------------------------------------------------------------------------
(* Properties of the renderer *)

\* the two characters that show fret f
FretCell(f) ==
    IF f <= 9 THEN <<"-", Digits[f + 1]>>
    ELSE <<Digits[((f % 100) \div 10) + 1], Digits[(f % 10) + 1]>>

CellFor(ev, s) == IF ev.string = s THEN FretCell(ev.fret) ELSE <<"-", "-">>

Reorderings(n) == { q \in [1..n -> 1..n] : \A a, b \in 1..n : q[a] = q[b] => a = b }

DistinctStarts(seq) ==
    \A a, b \in DOMAIN seq : seq[a].start_time = seq[b].start_time => a = b

\* C7 as stated: for N TabEvents, N >= 0, the text has four lines of exactly
\* 2 + 2*N + 1 characters each.
C7_AsStated ==
    pc = "rendered" =>
        /\ Len(TextLines(text)) = 4
        /\ \A l \in DOMAIN TextLines(text) :
              Len(TextLines(text)[l]) = 2 + 2 * Len(tab_events) + 1

\* C7 as amended: the text has four lines; for N >= 1 TabEvents each line has
\* exactly 2 + 2*N + 1 characters (label, bar, N cells of two, closing bar);
\* for N = 0 each line has exactly 2 characters (label and bar).
C7_ColumnAlignment ==
    pc = "rendered" =>
        LET lines == TextLines(text)
            N == Len(tab_events)
        IN  /\ Len(lines) = 4
            /\ \A l \in DOMAIN lines :
                  /\ Len(lines[l]) = IF N = 0 THEN 2 ELSE 2 + 2 * N + 1
                  /\ lines[l][1] = Labels[l]
                  /\ lines[l][2] = "|"
                  /\ lines[l][Len(lines[l])] = "|"

C7_Witness ==
    /\ pc = "rendered"
    /\ Len(tab_events) = 2
    /\ tab_events[1].fret = 105 /\ tab_events[1].string = 3
    /\ tab_events[2].fret = 7 /\ tab_events[2].string = 5
    /\ Len(text) = 4 * 7 + 3

\* C8 as stated: notes_to_tab of the empty list is the empty list, and
\* render_ascii_tab of the empty list is the lines "E|", "A|", "D|", "G|"
\* joined by newlines as the lines of a tab with events are, a newline
\* between two lines and none after the last.
C8_AsStated ==
    /\ (Returned /\ note_events = <<>>) => tab_events = <<>>
    /\ (pc = "rendered" /\ tab_events = <<>>) =>
          text = <<"E", "|", "\n", "A", "|", "\n", "D", "|", "\n", "G", "|">>

\* C9: for a list with events the lines are those of strings 1, 2, 3, 4 in
\* this order, labelled E, A, D, G; cell k of the line of string s shows the
\* event that is k-th by start time (equal start times in list order): its
\* fret in two characters if its string is s, "--" otherwise; and a list of
\* distinct start times renders to the same text in every order.
C9_CellsFollowTimeOrder ==
    (pc = "rendered" /\ tab_events # <<>>) =>
        LET lines == TextLines(text)
            N == Len(tab_events)
        IN  /\ Len(lines) = 4
            /\ text[Len(text)] # "\n"
            /\ \A s \in 1..4 :
                  /\ Len(lines[s]) = 2 * N + 3
                  /\ lines[s][1] = Labels[s]
                  /\ lines[s][2] = "|"
                  /\ lines[s][2 * N + 3] = "|"
                  /\ \A e \in DOMAIN tab_events :
                        LET k == Rank(tab_events, DOMAIN tab_events, e)
                        IN  SubSeq(lines[s], 2 * k + 1, 2 * k + 2) = CellFor(tab_events[e], s)
            /\ DistinctStarts(tab_events) =>
                  \A q \in Reorderings(N) :
                      render_ascii_tab([k \in 1..N |-> tab_events[q[k]]]) = text

C9_Witness ==
    /\ pc = "rendered"
    /\ Len(tab_events) = 2
    /\ tab_events[1].start_time = 1 /\ tab_events[1].fret = 105 /\ tab_events[1].string = 4
    /\ tab_events[2].start_time = 0 /\ tab_events[2].fret = 12 /\ tab_events[2].string = 1
    /\ TextLines(text)[1] = <<"E", "|", "1", "2", "-", "-", "|">>
    /\ TextLines(text)[4] = <<"G", "|", "-", "-", "0", "5", "|">>

---------------------------------------------------------------------------
(* Properties of choose_position *)

\* C10: for a pitch in 55..96, exactly one position has the least cost
\* against a previous position, and exactly one has the least fret; and
\* choose_position returns what it would return with the candidates
\* enumerated by ascending string, 1, 2, 3, 4.
C10_ChoiceIgnoresEnumeration ==
    pc = "chosen" =>
        /\ (InRange(midi) /\ prev_tab # None) =>
              Cardinality({ c \in Positions(midi) :
                  \A d \in Positions(midi) : Cost(c, prev_tab) <= Cost(d, prev_tab) }) = 1
        /\ (InRange(midi) /\ prev_tab = None) =>
              Cardinality({ c \in Positions(midi) :
                  \A d \in Positions(midi) : c[2] <= d[2] }) = 1
        /\ pos = ChooseAmong(CandidatesFrom(<<1, 2, 3, 4>>, midi), prev_tab)

C10_Witness ==
    /\ pc = "chosen"
    /\ midi = 76
    /\ prev_tab # None
    /\ prev_tab.string = 2 /\ prev_tab.fret = 7
    /\ pos = <<2, 7>>

====
